---- MODULE Spec2Model ----
(***************************************************************************)
(* A model of the codalab worker (worker/codalabworker/worker.py): the      *)
(* check-in loop of Worker.run, the CPU/GPU pool, the dispatch of run       *)
(* assignments, the resume of the runs of a previous worker process, the    *)
(* download of dependencies, the out-of-band messages (read, netcat,        *)
(* write, kill), the eviction of the dependency cache and the drain /       *)
(* upgrade exit sequence; and of two commands of the command-line client    *)
(* (codalab/lib/bundle_cli.py): follow_targets and do_rm_user_command.      *)
(*                                                                         *)
(* Run, WorkerStateManager and DependencyManager are collaborators whose    *)
(* code is not part of the sources at hand; they are modelled from their    *)
(* description in the specification (sections 4.2, 4.5, 4.6).               *)
(***************************************************************************)
EXTENDS Integers, FiniteSets, Sequences, TLC

\* ------------------------------------------------------------------ bounds
NumCpus == 2    \* size of the configured cpuset
NumGpus == 1    \* size of the configured gpuset
MaxRuns == 1    \* run assignments the bundle service dispatches
MaxPrev == 1    \* runs found in the state file of a previous worker process
NumKeys == 1    \* distinct (parent_uuid, parent_path) dependency keys
InstalledMem == 2   \* _get_installed_memory_bytes, in units of memory
NumSockets == 1 \* requester sockets of read and netcat messages
DepChunks == 2  \* reads that a dependency payload takes
NumCacheKeys == 2   \* dependency keys of the cache under a quota
DepQuota == 3   \* max_work_dir_size_bytes, in bytes
MaxOpsRuns == 1 \* run assignments next to out-of-band messages

CacheKeys == 1 .. NumCacheKeys
CPUS == 0 .. (NumCpus - 1)       \* self._cpuset
GPUS == 0 .. (NumGpus - 1)       \* self._gpuset
ForeignCpu == NumCpus            \* a core of a previous configuration
NewUuids == 1 .. MaxRuns
PrevUuids == (MaxRuns + 1) .. (MaxRuns + MaxPrev)
Uuids == NewUuids \cup PrevUuids
Keys == 1 .. NumKeys
NoKey == 0
Sockets == 1 .. NumSockets

VARIABLES
    cpuset_free,             \* Worker._cpuset_free
    gpuset_free,             \* Worker._gpuset_free
    resource_lock,           \* holder of Worker._resource_lock
    exiting,                 \* Worker._exiting
    should_upgrade,          \* Worker._should_upgrade
    last_checkin_successful, \* Worker._last_checkin_successful
    resumed_prev_runs,       \* local of Worker.run
    pc,                      \* position of the main thread in Worker.run
    msg,                     \* the check-in response being dispatched
    cpuset,                  \* local of _allocate_cpu_and_gpu_sets / _run
    gpuset,                  \* local of _allocate_cpu_and_gpu_sets / _run
    runs,                    \* WorkerStateManager._runs (uuids)
    previous_runs,           \* WorkerStateManager.previous_runs
    state_file,              \* uuids in the persisted worker state
    threads,                 \* the Run objects and their driver threads
    deps,                    \* DependencyManager entries
    fetches,                 \* get_bundle_contents calls per live entry
    files,                   \* the dependency paths on disk
    lru,                     \* the entries, least recently used first
    dispatched,              \* number of run messages received so far
    workload,                \* what the bundle service dispatches in this behaviour
    sockets,                 \* what was sent to the requesters' sockets
    exiting_lock,            \* holder of Worker._exiting_lock
    checkout_attempted,      \* _bundle_service.checkout was called
    code_fetched,            \* _bundle_service.get_code was called
    worker_dir,              \* the worker's code directory
    exit_code,               \* -1 while the process lives
    last_attempt,            \* how the check-in call of the last finished iteration ended
    store_lock,              \* holder of the lock of the WorkerStateManager
    resume_calls,            \* calls of resume_previous_runs so far (2: two or more)
    checkout_failed,         \* _bundle_service.checkout raised BundleServiceException
    cleanup_threads,         \* the cleanup threads of the managers: running or stopped
    cli_pc,                  \* position of the command-line client (bundle_cli.py)
    period,                  \* follow_targets: the sampling period, in milliseconds
    info_state,              \* follow_targets: info['state']
    change,                  \* follow_targets: new output was printed by this sample
    user_info,               \* do_rm_user_command: the result of client.rm_user
    cli_out                  \* what the command printed or raised

vars == <<cpuset_free, gpuset_free, resource_lock, exiting, should_upgrade,
          last_checkin_successful, resumed_prev_runs, pc, msg, cpuset, gpuset,
          runs, previous_runs, state_file, threads, deps, fetches, files, lru,
          dispatched, workload, sockets, exiting_lock,
          checkout_attempted, code_fetched, worker_dir, exit_code,
          last_attempt, store_lock, resume_calls, checkout_failed,
          cleanup_threads, cli_pc, period, info_state, change,
          user_info, cli_out>>

poolVars == <<cpuset_free, gpuset_free, resource_lock>>
flagVars == <<exiting, exiting_lock, should_upgrade, last_checkin_successful,
             resumed_prev_runs, last_attempt, resume_calls>>
localVars == <<msg, cpuset, gpuset>>
storeVars == <<runs, previous_runs, state_file, store_lock>>
depVars == <<deps, fetches, files, lru>>
serviceVars == <<dispatched, workload, sockets>>
exitVars == <<checkout_attempted, code_fetched, worker_dir, exit_code,
             checkout_failed, cleanup_threads>>
cliVars == <<cli_pc, period, info_state, change, user_info, cli_out>>
workerVars == <<poolVars, flagVars, pc, localVars, storeVars, threads, depVars,
               serviceVars, exitVars>>

NoMsg == [type |-> "none", uuid |-> 0, cpus |-> 0, gpus |-> 0, mem |-> 0,
          dep |-> NoKey, socket |-> 0, late |-> FALSE]

Min(a, b) == IF a < b THEN a ELSE b

\* No command of the command-line client is running.
CliIdle ==
    /\ cli_pc = "idle"
    /\ period = 0
    /\ info_state = "none"
    /\ change = FALSE
    /\ user_info = "none"
    /\ cli_out = "none"

\* ------------------------------------------------------------ resource pool

\* A variant that tests the CPUs alone.
AllocFailsCpuOnly(fc, fg, request_cpus, request_gpus) ==
    Cardinality(fc) < request_cpus

\* _allocate_cpu_and_gpu_sets, line 238: the request cannot be served.
AllocFails(fc, fg, request_cpus, request_gpus) ==
    Cardinality(fc) < request_cpus \/ Cardinality(fg) < request_gpus

\* A variant whose loop stops one pop short.
PopNShort(S, n) == {T \in SUBSET S : Cardinality(T) = IF n > 0 THEN n - 1 ELSE 0}

\* _allocate_cpu_and_gpu_sets, lines 241-244: n times set.pop(), which removes
\* and returns an arbitrary member: every n-subset is a possible result.
PopN(S, n) == {T \in SUBSET S : Cardinality(T) = n}

\* A variant that does not give the set back.
DeallocLeak(free, set) == free

\* A variant that assigns where the code unites.
DeallocAssign(free, set) == set

\* _deallocate_cpu_and_sets, lines 254-255: free |= set.
Dealloc(free, set) == free \cup set

\* _run, line 266: the result of the allocation is taken for a failure.
AllocationRejected(cs, gs) == Cardinality(cs) = 0 /\ Cardinality(gs) = 0

\* resume_previous_runs, lines 111-122, for one run: every core of the run that
\* is in the configured set is removed from the free set; set.remove raises
\* KeyError on a core that is not free, the cores met before it (the iteration
\* order of a set is arbitrary) stay removed.
SubtractOne(rec, fc, fg) ==
    LET inC == rec.cpuset \cap CPUS
        inG == rec.gpuset \cap GPUS
    IN  IF ~(inC \subseteq fc)
        THEN {[ok |-> FALSE, cpu |-> fc \ S, gpu |-> fg] : S \in SUBSET (inC \cap fc)}
        ELSE IF ~(inG \subseteq fg)
        THEN {[ok |-> FALSE, cpu |-> fc \ inC, gpu |-> fg \ S] : S \in SUBSET (inG \cap fg)}
        ELSE {[ok |-> TRUE, cpu |-> fc \ inC, gpu |-> fg \ inG]}

\* resume_previous_runs, lines 109-122: the loop over map_runs, in any order.
RECURSIVE SubtractRuns(_, _, _, _)
SubtractRuns(th, rs, fc, fg) ==
    IF rs = {} THEN {[ok |-> TRUE, cpu |-> fc, gpu |-> fg]}
    ELSE UNION { UNION { IF o.ok THEN SubtractRuns(th, rs \ {u}, o.cpu, o.gpu) ELSE {o}
                         : o \in SubtractOne(th[u], fc, fg) }
                 : u \in rs }

\* ------------------------------------------------- worker state manager

\* WorkerStateManager.has_runs
has_runs == runs # {}

\* A variant that does not ask the state manager.
should_run_ignores_runs == ~exiting

\* Worker._should_run, lines 167-170
should_run == IF ~exiting THEN TRUE ELSE has_runs

\* WorkerStateManager.map_runs(lambda run: run.requested_memory_bytes), summed
RECURSIVE SumMemory(_, _)
SumMemory(th, rs) ==
    IF rs = {} THEN 0
    ELSE LET u == CHOOSE v \in rs : TRUE
         IN  th[u].requested_memory_bytes + SumMemory(th, rs \ {u})

\* Worker._get_allocated_memory_bytes, lines 179-180
get_allocated_memory_bytes == SumMemory(threads, runs)

\* Worker._get_memory_bytes, lines 182-183
get_memory_bytes ==
    IF InstalledMem - get_allocated_memory_bytes > 0
    THEN InstalledMem - get_allocated_memory_bytes
    ELSE 0

\* A variant that counts the cores that are free.
checkin_request_of_free_sets ==
    [cpus |-> Cardinality(cpuset_free), gpus |-> Cardinality(gpuset_free),
     memory_bytes |-> get_memory_bytes, will_upgrade |-> should_upgrade]

\* Worker._checkin, lines 191-199: the request ('cpus': len(self._cpuset),
\* 'gpus': len(self._gpuset), 'memory_bytes': self._get_memory_bytes()); the
\* configured sets are the constructor's arguments (lines 59-60), of which the
\* free sets are copies (lines 61-62).
checkin_request ==
    [cpus |-> Cardinality(CPUS), gpus |-> Cardinality(GPUS),
     memory_bytes |-> get_memory_bytes, will_upgrade |-> should_upgrade]

\* -------------------------------------------------- dependency manager

AbsentEntry == [state |-> "absent", refcount |-> 0, users |-> {}]

\* DependencyManager.add_dependency (acquire): the caller that finds no entry
\* creates it in the downloading state and is the one told to download.
DM_should_download(d, k) == d[k].state = "absent"

DM_add_dependency(d, k, u) ==
    IF d[k].state = "absent"
    THEN [d EXCEPT ![k] = [state |-> "downloading", refcount |-> 1, users |-> {u}]]
    ELSE [d EXCEPT ![k].refcount = @ + 1, ![k].users = @ \cup {u}]

\* DependencyManager.finish_download: ready, or the entry is removed.
DM_finish_download(d, k, success) ==
    IF success THEN [d EXCEPT ![k].state = "ready"]
    ELSE [d EXCEPT ![k] = AbsentEntry]

\* DependencyManager.remove_dependency (release): safe on a dependency the run
\* never added.
DM_remove_dependency(d, k, u) ==
    IF u \in d[k].users
    THEN [d EXCEPT ![k].refcount = @ - 1, ![k].users = @ \ {u}]
    ELSE d

\* DependencyManager.finish_run: the specification gives it no effect on the
\* dependency entries.
DM_finish_run(d, u) == d

\* byte_size of the payload of a key
ByteSize(k) == k + 1

ReadyKeys(d) == {k \in DOMAIN d : d[k].state = "ready"}

RECURSIVE SumBytes(_)
SumBytes(ks) ==
    IF ks = {} THEN 0
    ELSE LET k == CHOOSE x \in ks : TRUE IN ByteSize(k) + SumBytes(ks \ {k})

\* total on-disk size: the sum of byte_size over the ready entries
TotalBytes(d) == SumBytes(ReadyKeys(d))

\* A variant that does not look at the users of an entry.
EligibleUnpinned(d, k) == d[k].state = "ready"

\* An entry the eviction may delete: ready and without users.
Eligible(d, k) == d[k].state = "ready" /\ d[k].refcount = 0

Without(seq, k) == SelectSeq(seq, LAMBDA x : x # k)

\* Background eviction: while the total is over the quota, the eligible entry
\* used least recently is deleted from disk; the pass stops under the quota or
\* without eligible entries.
RECURSIVE EvictPass(_, _, _, _)
EvictPass(d, f, n, order) ==
    LET el == SelectSeq(order, LAMBDA k : Eligible(d, k))
    IN  IF TotalBytes(d) <= DepQuota \/ el = <<>>
        THEN [deps |-> d, files |-> f, fetches |-> n, lru |-> order]
        ELSE EvictPass([d EXCEPT ![Head(el)] = AbsentEntry],
                       [f EXCEPT ![Head(el)] = "none"],
                       [n EXCEPT ![Head(el)] = 0],
                       Without(order, Head(el)))

\* The entry becomes the most recently used one.
Touch(seq, k) == Append(Without(seq, k), k)

\* A variant in which every caller fetches.
ShouldFetchAlways(should_download) == TRUE

\* Worker.add_dependency, line 291: only the caller told to download fetches.
ShouldFetch(should_download) == should_download

\* A variant that does not reach the dependency manager.
remove_dependency_dropped(d, k, u) == d

\* Worker.remove_dependency, line 336
remove_dependency(d, k, u) == DM_remove_dependency(d, k, u)

\* --------------------------------------------------------------- the runs

NewThread(cs, gs, m, k) ==
    [st |-> "PREPARING", dl |-> "new", cpuset |-> cs, gpuset |-> gs,
     requested_memory_bytes |-> m, dep |-> k, holds |-> FALSE, chunks |-> 0,
     kill |-> FALSE, reason |-> "", cleanup |-> 0]

\* Run.deserialize + resume: the run rebinds to its container.
ResumedThread(rec) ==
    [st |-> "RUNNING", dl |-> "staged", cpuset |-> rec.cpuset, gpuset |-> rec.gpuset,
     requested_memory_bytes |-> rec.requested_memory_bytes, dep |-> NoKey,
     holds |-> FALSE, chunks |-> 0, kill |-> FALSE, reason |-> "", cleanup |-> 0]

Terminal(st) == st \in {"FINISHED", "FAILED"}

\* The state files a previous worker process can have left: its runs hold
\* pairwise disjoint cores; a core may be outside the present configuration.
PrevRecords ==
    {[cpuset |-> {0}, gpuset |-> {0}, requested_memory_bytes |-> 1],
     [cpuset |-> {ForeignCpu}, gpuset |-> {}, requested_memory_bytes |-> 1]}

Disjoint(f) ==
    \A u, v \in DOMAIN f : u # v =>
        f[u].cpuset \cap f[v].cpuset = {} /\ f[u].gpuset \cap f[v].gpuset = {}

PrevStates ==
    { f \in UNION { [P -> PrevRecords] : P \in SUBSET PrevUuids } : Disjoint(f) }

Init ==
    /\ cpuset_free = CPUS
    /\ gpuset_free = GPUS
    /\ resource_lock = "none"
    /\ exiting = FALSE
    /\ should_upgrade = FALSE
    /\ last_checkin_successful = FALSE
    /\ resumed_prev_runs = FALSE
    /\ pc = "loop"
    /\ msg = NoMsg
    /\ cpuset = {}
    /\ gpuset = {}
    /\ runs = {}
    /\ previous_runs \in PrevStates
    /\ state_file = DOMAIN previous_runs
    /\ threads = [u \in {} |-> NewThread({}, {}, 0, NoKey)]
    /\ deps = [k \in Keys |-> AbsentEntry]
    /\ fetches = [k \in Keys |-> 0]
    /\ files = [k \in Keys |-> "none"]
    /\ lru = <<>>
    /\ dispatched = 0
    /\ workload = [quota |-> MaxRuns, keys |-> {NoKey},
                   sizes |-> (0 .. NumCpus) \X (0 .. NumGpus),
                   mems |-> 1 .. InstalledMem]
    /\ checkout_attempted = FALSE
    /\ code_fetched = FALSE
    /\ worker_dir = "old"
    /\ exit_code = -1
    /\ sockets = [s \in Sockets |-> "open"]
    /\ exiting_lock = "none"
    /\ last_attempt = "none"
    /\ store_lock = "none"
    /\ resume_calls = 0
    /\ checkout_failed = FALSE
    /\ cleanup_threads = "running"
    /\ CliIdle

\* ------------------------------------------------- the main thread

\* Worker.run, line 126: while self._should_run()
LoopTest ==
    /\ pc = "loop"
    /\ exiting_lock = "none"
    /\ pc' = IF should_run THEN "checkin" ELSE "checkout"
    /\ UNCHANGED <<poolVars, flagVars, localVars, storeVars, threads, depVars,
                   serviceVars, exitVars, cliVars>>

\* A variant in which a failed check-in ends the loop.
CheckinFailsStops ==
    /\ pc = "checkin"
    /\ last_checkin_successful' = FALSE
    /\ last_attempt' = "failed"
    /\ pc' = "checkout"
    /\ UNCHANGED <<poolVars, exiting, exiting_lock, should_upgrade, resumed_prev_runs,
                   localVars, storeVars, threads, depVars, serviceVars, exitVars,
                   cliVars, resume_calls>>

\* _checkin raises (lines 142-145): the failure is recorded, the loop goes on.
CheckinFails ==
    /\ pc = "checkin"
    /\ last_checkin_successful' = FALSE
    /\ last_attempt' = "failed"
    /\ pc' = "loop"
    /\ UNCHANGED <<poolVars, exiting, exiting_lock, should_upgrade, resumed_prev_runs,
                   localVars, storeVars, threads, depVars, serviceVars, exitVars,
                   cliVars, resume_calls>>

\* _checkin, line 201: the response is empty.
CheckinNull ==
    /\ pc = "checkin"
    /\ pc' = "post_checkin"
    /\ UNCHANGED <<poolVars, flagVars, localVars, storeVars, threads, depVars,
                   serviceVars, exitVars, cliVars>>

\* _checkin, lines 191-205: a run message; _run is entered.  The bundle service
\* sends a run that fits the memory_bytes of the request.
CheckinRun ==
    /\ pc = "checkin"
    /\ dispatched < workload.quota
    /\ \E size \in workload.sizes, k \in workload.keys, m \in workload.mems :
          /\ m <= checkin_request.memory_bytes
          /\ size[1] <= checkin_request.cpus
          /\ size[2] <= checkin_request.gpus
          /\ msg' = [NoMsg EXCEPT !.type = "run", !.uuid = dispatched + 1,
                                  !.cpus = size[1], !.gpus = size[2], !.mem = m,
                                  !.dep = k, !.late = exiting]
    /\ dispatched' = dispatched + 1
    /\ pc' = "alloc"
    /\ UNCHANGED <<poolVars, flagVars, cpuset, gpuset, storeVars, threads, depVars,
                   workload, sockets, exitVars, cliVars>>

\* _checkin, lines 217-220: an upgrade message.
CheckinUpgrade ==
    /\ pc = "checkin"
    /\ exiting_lock = "none"
    /\ exiting' = TRUE
    /\ should_upgrade' = TRUE
    /\ pc' = "post_checkin"
    /\ UNCHANGED <<poolVars, exiting_lock, last_checkin_successful, resumed_prev_runs, localVars,
                   storeVars, threads, depVars, serviceVars, exitVars,
                   last_attempt, cliVars, resume_calls>>

\* _allocate_cpu_and_gpu_sets, lines 235-242: the lock is taken, the request is
\* tested and the CPUs are popped.
AllocCpus ==
    /\ pc = "alloc"
    /\ resource_lock = "none"
    /\ IF AllocFails(cpuset_free, gpuset_free, msg.cpus, msg.gpus)
       THEN /\ cpuset' = {}
            /\ gpuset' = {}
            /\ pc' = "allocated"
            /\ UNCHANGED <<cpuset_free, gpuset_free, resource_lock>>
       ELSE /\ \E T \in PopN(cpuset_free, msg.cpus) :
                  /\ cpuset' = T
                  /\ cpuset_free' = cpuset_free \ T
            /\ gpuset' = {}
            /\ resource_lock' = "main"
            /\ pc' = "alloc_gpus"
            /\ UNCHANGED gpuset_free
    /\ UNCHANGED <<flagVars, msg, storeVars, threads, depVars, serviceVars,
                   exitVars, cliVars>>

\* _allocate_cpu_and_gpu_sets, lines 243-245: the GPUs are popped, the lock is
\* released.
AllocGpus ==
    /\ pc = "alloc_gpus"
    /\ \E T \in PopN(gpuset_free, msg.gpus) :
          /\ gpuset' = T
          /\ gpuset_free' = gpuset_free \ T
    /\ resource_lock' = "none"
    /\ pc' = "allocated"
    /\ UNCHANGED <<cpuset_free, cpuset, flagVars, msg, storeVars, threads, depVars,
                   serviceVars, exitVars, cliVars>>

\* _run, lines 266-268: an empty result ends the dispatch.
RunCheck ==
    /\ pc = "allocated"
    /\ pc' = IF AllocationRejected(cpuset, gpuset) THEN "post_checkin" ELSE "run_start"
    /\ UNCHANGED <<poolVars, flagVars, localVars, storeVars, threads, depVars,
                   serviceVars, exitVars, cliVars>>

\* _run, lines 270-272: Run(...).run() returns True; the run's thread exists.
RunStarts ==
    /\ pc = "run_start"
    /\ threads' = [u \in DOMAIN threads \cup {msg.uuid} |->
                      IF u = msg.uuid THEN NewThread(cpuset, gpuset, msg.mem, msg.dep)
                      ELSE threads[u]]
    /\ pc' = "add_run"
    /\ UNCHANGED <<poolVars, flagVars, localVars, storeVars, depVars, serviceVars, exitVars,
                   cliVars>>

\* A variant that keeps the sets of a run that did not start.
RunRefusedKeepsSets ==
    /\ pc = "run_start"
    /\ resource_lock = "none"
    /\ cpuset' = {}
    /\ gpuset' = {}
    /\ pc' = "post_checkin"
    /\ UNCHANGED <<poolVars, flagVars, msg, storeVars, threads, depVars,
                   serviceVars, exitVars, cliVars>>

\* _run, lines 272-275: Run(...).run() returns False; the sets are given back.
RunRefused ==
    /\ pc = "run_start"
    /\ resource_lock = "none"
    /\ cpuset_free' = Dealloc(cpuset_free, cpuset)
    /\ gpuset_free' = Dealloc(gpuset_free, gpuset)
    /\ cpuset' = {}
    /\ gpuset' = {}
    /\ pc' = "post_checkin"
    /\ UNCHANGED <<resource_lock, flagVars, msg, storeVars, threads, depVars,
                   serviceVars, exitVars, cliVars>>

\* _run, lines 270-272: Run(...) or run.run() raises.  _run has no handler and
\* gives nothing back; the exception leaves _checkin and is caught at lines
\* 142-145, after a check-in call that had returned.
RunRaises ==
    /\ pc = "run_start"
    /\ cpuset' = {}
    /\ gpuset' = {}
    /\ msg' = NoMsg
    /\ last_checkin_successful' = FALSE
    /\ last_attempt' = "ok"
    /\ pc' = "loop"
    /\ UNCHANGED <<poolVars, exiting, exiting_lock, should_upgrade, resumed_prev_runs,
                   resume_calls, storeVars, threads, depVars, serviceVars, exitVars,
                   cliVars>>

\* _run, line 273: add_run
AddRun ==
    /\ pc = "add_run"
    /\ store_lock = "none"
    /\ runs' = runs \cup {msg.uuid}
    /\ cpuset' = {}
    /\ gpuset' = {}
    /\ pc' = "post_checkin"
    /\ UNCHANGED <<poolVars, flagVars, msg, previous_runs, state_file, threads,
                   depVars, serviceVars, exitVars, cliVars, store_lock>>

\* Worker.run, lines 134-136: resume once, after the check-in.
PostCheckin ==
    /\ pc = "post_checkin"
    /\ msg' = NoMsg
    /\ pc' = IF ~resumed_prev_runs THEN "resume" ELSE "save"
    /\ UNCHANGED <<poolVars, flagVars, cpuset, gpuset, storeVars, threads, depVars,
                   serviceVars, exitVars, cliVars>>

\* resume_previous_runs, lines 103-106: every run of the state file is
\* reconstructed and put into the state manager.
ResumeRuns ==
    /\ pc = "resume"
    /\ store_lock = "none"
    /\ runs' = runs \cup DOMAIN previous_runs
    /\ resume_calls' = Min(resume_calls + 1, 2)
    /\ threads' = [u \in DOMAIN threads \cup DOMAIN previous_runs |->
                      IF u \in DOMAIN previous_runs THEN ResumedThread(previous_runs[u])
                      ELSE threads[u]]
    /\ pc' = "subtract"
    /\ UNCHANGED <<poolVars, exiting, exiting_lock, should_upgrade,
                   last_checkin_successful, resumed_prev_runs, last_attempt,
                   localVars, previous_runs, state_file, depVars,
                   serviceVars, exitVars, cliVars, store_lock>>

\* resume_previous_runs, line 109: with self._resource_lock
SubtractLock ==
    /\ pc = "subtract"
    /\ resource_lock = "none"
    /\ resource_lock' = "main"
    /\ pc' = "map_runs"
    /\ UNCHANGED <<cpuset_free, gpuset_free, flagVars, localVars, storeVars, threads,
                   depVars, serviceVars, exitVars, cliVars>>

\* resume_previous_runs, line 110: map_runs is entered with the resource lock
\* held; the state manager takes its own lock for the snapshot.
map_runs ==
    /\ pc = "map_runs"
    /\ store_lock = "none"
    /\ store_lock' = "main"
    /\ pc' = "subtracting"
    /\ UNCHANGED <<poolVars, flagVars, localVars, runs, previous_runs, state_file,
                   threads, depVars, serviceVars, exitVars, cliVars>>

\* resume_previous_runs, lines 110-124, then line 136: map_runs returns the
\* sets of the runs, the loop subtracts them, the lock is released and the
\* state is saved; a KeyError leaves through the handler of lines 142-145,
\* after a check-in that had succeeded.
SubtractResumed ==
    /\ pc = "subtracting"
    /\ \E o \in SubtractRuns(threads, runs, cpuset_free, gpuset_free) :
          /\ cpuset_free' = o.cpu
          /\ gpuset_free' = o.gpu
          /\ IF o.ok
             THEN /\ state_file' = runs
                  /\ resumed_prev_runs' = TRUE
                  /\ pc' = "save"
                  /\ UNCHANGED <<last_checkin_successful, last_attempt>>
             ELSE /\ last_checkin_successful' = FALSE
                  /\ last_attempt' = "ok"
                  /\ pc' = "loop"
                  /\ UNCHANGED <<state_file, resumed_prev_runs>>
    /\ resource_lock' = "none"
    /\ store_lock' = "none"
    /\ UNCHANGED <<exiting, exiting_lock, should_upgrade, localVars, runs,
                   previous_runs, threads, depVars, serviceVars, exitVars,
                   cliVars, resume_calls>>

\* Worker.run, lines 137-140
SaveState ==
    /\ pc = "save"
    /\ store_lock = "none"
    /\ state_file' = runs
    /\ last_checkin_successful' = TRUE
    /\ last_attempt' = "ok"
    /\ pc' = "loop"
    /\ UNCHANGED <<poolVars, exiting, exiting_lock, should_upgrade, resumed_prev_runs,
                   localVars, runs, previous_runs, threads, depVars, serviceVars, exitVars,
                   cliVars, store_lock, resume_calls>>

\* A variant of _checkout without the except clause: the exception of the
\* bundle service leaves Worker.run.
checkout_propagates ==
    /\ pc = "checkout"
    /\ checkout_attempted' = TRUE
    /\ \E raised \in BOOLEAN :
          /\ checkout_failed' = raised
          /\ IF raised THEN pc' = "exited" /\ exit_code' = 1
             ELSE pc' = "final_save" /\ UNCHANGED exit_code
    /\ UNCHANGED <<poolVars, flagVars, localVars, storeVars, threads, depVars,
                   serviceVars, code_fetched, worker_dir, cleanup_threads,
                   cliVars>>

\* Worker.run, line 147, and _checkout, lines 374-378: the call succeeds, or
\* raises BundleServiceException, which is printed and swallowed.
checkout ==
    /\ pc = "checkout"
    /\ checkout_attempted' = TRUE
    /\ \E raised \in BOOLEAN : checkout_failed' = raised
    /\ pc' = "final_save"
    /\ UNCHANGED <<poolVars, flagVars, localVars, storeVars, threads, depVars,
                   serviceVars, code_fetched, worker_dir, exit_code, cleanup_threads,
                   cliVars>>

\* A variant that leaves the loop without the last save.
FinalSaveNotPersisted ==
    /\ pc = "final_save"
    /\ IF should_upgrade
       THEN pc' = "upgrade" /\ UNCHANGED exit_code
       ELSE pc' = "exited" /\ exit_code' = 0
    /\ cleanup_threads' = "stopped"
    /\ UNCHANGED <<poolVars, flagVars, localVars, storeVars, threads,
                   depVars, serviceVars, checkout_attempted, code_fetched,
                   worker_dir, checkout_failed, cliVars>>

\* Worker.run, lines 148-156: the last save, the cleanup threads are stopped;
\* without an upgrade run() returns.
FinalSave ==
    /\ pc = "final_save"
    /\ store_lock = "none"
    /\ state_file' = runs
    /\ IF should_upgrade
       THEN pc' = "upgrade" /\ UNCHANGED exit_code
       ELSE pc' = "exited" /\ exit_code' = 0
    /\ cleanup_threads' = "stopped"
    /\ UNCHANGED <<poolVars, flagVars, localVars, runs, previous_runs, threads,
                   depVars, serviceVars, checkout_attempted, code_fetched,
                   worker_dir, checkout_failed, cliVars, store_lock>>

\* A variant that gives up after a failed download and exits.
UpgradeFetchGivesUp ==
    /\ pc = "upgrade"
    /\ code_fetched' = TRUE
    /\ pc' = "exited"
    /\ exit_code' = 123
    /\ UNCHANGED <<poolVars, flagVars, localVars, storeVars, threads, depVars,
                   serviceVars, checkout_attempted, worker_dir, cliVars,
                   checkout_failed, cleanup_threads>>

\* _upgrade, lines 384-392: get_code raises; retried after a second.
UpgradeFetchFails ==
    /\ pc = "upgrade"
    /\ code_fetched' = TRUE
    /\ UNCHANGED <<poolVars, flagVars, localVars, storeVars, threads, depVars,
                   serviceVars, checkout_attempted, worker_dir, exit_code, pc,
                   cliVars, checkout_failed, cleanup_threads>>

\* _upgrade, lines 386-388: the code arrives, the directory is removed; the
\* extraction succeeds (line 394: exit(123)) or raises (retried).
UpgradeExtract ==
    /\ pc = "upgrade"
    /\ code_fetched' = TRUE
    /\ \/ worker_dir' = "new" /\ pc' = "exited" /\ exit_code' = 123
       \/ worker_dir' \in {"removed", "partial"} /\ UNCHANGED <<pc, exit_code>>
    /\ UNCHANGED <<poolVars, flagVars, localVars, storeVars, threads, depVars,
                   serviceVars, checkout_attempted, cliVars, checkout_failed,
                   cleanup_threads>>

\* Worker.signal, lines 159-160: the caller takes the lock of the flag.
SignalAcquire ==
    /\ pc # "exited"
    /\ exiting_lock = "none"
    /\ exiting_lock' = "signal"
    /\ UNCHANGED <<poolVars, exiting, should_upgrade, last_checkin_successful,
                   resumed_prev_runs, pc, localVars, storeVars, threads, depVars,
                   serviceVars, exitVars, last_attempt, cliVars, resume_calls>>

\* A variant that flips the flag.
signal_toggles ==
    /\ exiting_lock = "signal"
    /\ exiting' = ~exiting
    /\ exiting_lock' = "none"
    /\ UNCHANGED <<poolVars, should_upgrade, last_checkin_successful,
                   resumed_prev_runs, pc, localVars, storeVars, threads, depVars,
                   serviceVars, exitVars, last_attempt, cliVars, resume_calls>>

\* Worker.signal, lines 160-161: the flag is set and the lock released.
signal ==
    /\ exiting_lock = "signal"
    /\ exiting' = TRUE
    /\ exiting_lock' = "none"
    /\ UNCHANGED <<poolVars, should_upgrade, last_checkin_successful,
                   resumed_prev_runs, pc, localVars, storeVars, threads, depVars,
                   serviceVars, exitVars, last_attempt, cliVars, resume_calls>>

\* -------------------------------------------------- the run threads

Active(u) == u \in DOMAIN threads /\ threads[u].cleanup = 0

\* Run, PREPARING: the image is present (STAGING) or cannot be fetched (FAILED).
RunPrepare(u) ==
    /\ Active(u)
    /\ threads[u].st = "PREPARING"
    /\ \/ threads' = [threads EXCEPT ![u].st = "STAGING",
                         ![u].dl = IF threads[u].dep = NoKey THEN "staged" ELSE "new"]
       \/ threads' = [threads EXCEPT ![u].st = "FAILED"]
    /\ UNCHANGED <<poolVars, flagVars, pc, localVars, storeVars, depVars, serviceVars, exitVars,
                   cliVars>>

\* Worker.add_dependency, lines 289-292: the run is registered; the caller told
\* to download goes on to fetch; a caller that finds the download in flight
\* waits for it.
add_dependency(u) ==
    /\ Active(u)
    /\ threads[u].st = "STAGING"
    /\ threads[u].dl = "new"
    /\ LET k == threads[u].dep
           fetch == ShouldFetch(DM_should_download(deps, k))
       IN  /\ deps' = DM_add_dependency(deps, k, u)
           /\ lru' = Touch(lru, k)
           /\ IF deps[k].state = "downloading"
              THEN /\ threads' = [threads EXCEPT ![u].dl = "waiting", ![u].holds = TRUE]
                   /\ UNCHANGED fetches
              ELSE /\ threads' = [threads EXCEPT
                                     ![u].dl = IF fetch THEN "downloading" ELSE "staged",
                                     ![u].holds = TRUE]
                   /\ fetches' = IF fetch THEN [fetches EXCEPT ![k] = Min(@ + 1, 2)]
                                 ELSE fetches
    /\ UNCHANGED <<poolVars, flagVars, pc, localVars, storeVars, files, serviceVars,
                   exitVars, cliVars>>

Waiting(v, k) ==
    /\ v \in DOMAIN threads
    /\ threads[v].cleanup = 0
    /\ threads[v].st = "STAGING"
    /\ threads[v].dl = "waiting"
    /\ threads[v].dep = k

\* The runs after the download of u has ended: the downloader goes on or fails
\* with the exception that ended the download; the waiters are released with
\* the same result.
FinishedThreads(u, k, download_success, why) ==
    LET refetch == ShouldFetch(FALSE)
        woken == {v \in DOMAIN threads : Waiting(v, k)}
    IN  [v \in DOMAIN threads |->
           IF v = u
           THEN IF download_success
                THEN [threads[v] EXCEPT !.dl = "staged"]
                ELSE [threads[v] EXCEPT !.st = "FAILED", !.reason = why,
                                        !.holds = FALSE]
           ELSE IF v \in woken
           THEN IF download_success
                THEN [threads[v] EXCEPT
                         !.dl = IF refetch THEN "downloading" ELSE "staged"]
                ELSE [threads[v] EXCEPT !.st = "FAILED", !.reason = "error",
                                        !.holds = FALSE]
           ELSE IF threads[v].dep = k /\ ~download_success
           THEN [threads[v] EXCEPT !.holds = FALSE]
           ELSE threads[v]]

\* A variant whose finally clause always reports a success.
finish_download_reports_success(u, k, download_success, why) ==
    /\ deps' = DM_finish_download(deps, k, TRUE)
    /\ lru' = lru
    /\ threads' = FinishedThreads(u, k, download_success, why)
    /\ fetches' = IF ~download_success THEN [fetches EXCEPT ![k] = 0] ELSE fetches

\* A variant without the finally clause: a failed download is not reported.
finish_download_not_in_finally(u, k, download_success, why) ==
    /\ deps' = IF download_success THEN DM_finish_download(deps, k, TRUE) ELSE deps
    /\ lru' = lru
    /\ threads' =
         IF download_success THEN FinishedThreads(u, k, TRUE, why)
         ELSE [threads EXCEPT ![u].st = "FAILED", ![u].reason = why,
                              ![u].holds = FALSE]
    /\ fetches' = fetches

\* Worker.add_dependency, lines 311-314: the finally clause reports the end of
\* the download to the dependency manager; an exception goes on to the run.
finish_download(u, k, download_success, why) ==
    /\ deps' = DM_finish_download(deps, k, download_success)
    /\ lru' = IF download_success THEN lru ELSE Without(lru, k)
    /\ threads' = FinishedThreads(u, k, download_success, why)
    /\ fetches' =
         IF ~download_success THEN [fetches EXCEPT ![k] = 0]
         ELSE IF ShouldFetch(FALSE)
         THEN [fetches EXCEPT
                 ![k] = Min(@ + Cardinality({v \in DOMAIN threads : Waiting(v, k)}), 2)]
         ELSE fetches

\* Worker.add_dependency, lines 295-296: get_bundle_contents returns the stream
\* (the store begins: the path is created) or raises.
get_bundle_contents(u) ==
    /\ Active(u)
    /\ threads[u].st = "STAGING"
    /\ threads[u].dl = "downloading"
    /\ LET k == threads[u].dep
       IN  \/ /\ threads' = [threads EXCEPT ![u].dl = "storing", ![u].chunks = 0]
              /\ files' = [files EXCEPT ![k] = "partial"]
              /\ UNCHANGED <<deps, fetches, lru>>
           \/ /\ finish_download(u, k, FALSE, "error")
              /\ UNCHANGED files
    /\ UNCHANGED <<poolVars, flagVars, pc, localVars, storeVars, serviceVars, exitVars,
                   cliVars>>

\* A variant that leaves what was written.
store_failed_keeps_path(f, k) == f

\* _store_dependency, lines 325-327: remove_path, then the exception goes on.
store_failed(f, k) == [f EXCEPT ![k] = "none"]

\* Worker.add_dependency, lines 302-310, and _store_dependency: one more chunk is
\* read and loop_callback is called; the callback raises when the run was
\* killed; the read or the write may raise; after the last chunk the payload is
\* complete.
store_dependency(u) ==
    /\ Active(u)
    /\ threads[u].st = "STAGING"
    /\ threads[u].dl = "storing"
    /\ LET k == threads[u].dep
       IN  IF threads[u].kill
           THEN /\ files' = store_failed(files, k)
                /\ finish_download(u, k, FALSE, "Kill requested")
           ELSE \/ /\ files' = store_failed(files, k)
                   /\ finish_download(u, k, FALSE, "error")
                \/ /\ threads[u].chunks + 1 < DepChunks
                   /\ threads' = [threads EXCEPT ![u].chunks = @ + 1]
                   /\ UNCHANGED <<deps, fetches, files, lru>>
                \/ /\ threads[u].chunks + 1 = DepChunks
                   /\ files' = [files EXCEPT ![k] = "complete"]
                   /\ finish_download(u, k, TRUE, "")
    /\ UNCHANGED <<poolVars, flagVars, pc, localVars, storeVars, serviceVars, exitVars,
                   cliVars>>

\* Run, STAGING: the container is launched (RUNNING) or the launch fails.
RunLaunch(u) ==
    /\ Active(u)
    /\ threads[u].st = "STAGING"
    /\ threads[u].dl = "staged"
    /\ \E next \in {"RUNNING", "FAILED"} :
          threads' = [threads EXCEPT ![u].st = next]
    /\ UNCHANGED <<poolVars, flagVars, pc, localVars, storeVars, depVars, serviceVars, exitVars,
                   cliVars>>

\* Run, RUNNING: the container exits (UPLOADING) or has disappeared (FAILED).
RunExit(u) ==
    /\ Active(u)
    /\ threads[u].st = "RUNNING"
    /\ \E next \in {"UPLOADING", "FAILED"} :
          threads' = [threads EXCEPT ![u].st = next]
    /\ UNCHANGED <<poolVars, flagVars, pc, localVars, storeVars, depVars, serviceVars, exitVars,
                   cliVars>>

\* Run, UPLOADING: the results are uploaded (FINISHED) or the upload fails.
RunUpload(u) ==
    /\ Active(u)
    /\ threads[u].st = "UPLOADING"
    /\ \E next \in {"FINISHED", "FAILED"} :
          threads' = [threads EXCEPT ![u].st = next]
    /\ UNCHANGED <<poolVars, flagVars, pc, localVars, storeVars, depVars, serviceVars, exitVars,
                   cliVars>>

\* Run, terminal: the sets go back to the pool (_deallocate_cpu_and_sets) and
\* the dependency is released (remove_dependency).
RunRelease(u) ==
    /\ Active(u)
    /\ Terminal(threads[u].st)
    /\ resource_lock = "none"
    /\ cpuset_free' = Dealloc(cpuset_free, threads[u].cpuset)
    /\ gpuset_free' = Dealloc(gpuset_free, threads[u].gpuset)
    /\ deps' = IF threads[u].dep = NoKey THEN deps
               ELSE remove_dependency(deps, threads[u].dep, u)
    /\ threads' = [threads EXCEPT ![u].cleanup = 1, ![u].holds = FALSE]
    /\ UNCHANGED <<resource_lock, flagVars, pc, localVars, storeVars, fetches, files, lru,
                   serviceVars, exitVars, cliVars>>

\* Worker.finish_run, lines 366-372
finish_run(u) ==
    /\ u \in DOMAIN threads
    /\ threads[u].cleanup = 1
    /\ store_lock = "none"
    /\ runs' = runs \ {u}
    /\ deps' = DM_finish_run(deps, u)
    /\ threads' = [threads EXCEPT ![u].cleanup = 2]
    /\ UNCHANGED <<poolVars, flagVars, pc, localVars, previous_runs, state_file,
                   fetches, files, lru, serviceVars, exitVars, cliVars,
                   store_lock>>

RunStep(u) ==
    \/ RunPrepare(u)
    \/ RunLaunch(u)
    \/ RunExit(u)
    \/ RunUpload(u)
    \/ RunRelease(u)
    \/ finish_run(u)

DepStep(u) ==
    \/ add_dependency(u)
    \/ get_bundle_contents(u)
    \/ store_dependency(u)

DispatchStep ==
    \/ LoopTest
    \/ CheckinNull
    \/ CheckinRun
    \/ AllocCpus
    \/ AllocGpus
    \/ RunCheck
    \/ RunStarts
    \/ AddRun
    \/ PostCheckin
    \/ ResumeRuns
    \/ SubtractLock
    \/ map_runs
    \/ SubtractResumed
    \/ SaveState

DrainStep ==
    \/ CheckinFails
    \/ CheckinUpgrade
    \/ RunRefused
    \/ RunRaises
    \/ checkout
    \/ FinalSave
    \/ UpgradeFetchFails
    \/ UpgradeExtract
    \/ SignalAcquire
    \/ signal

\* The worker: the check-in loop, the drain and the runs it starts or resumes.
Next ==
    \/ DispatchStep
    \/ DrainStep
    \/ \E u \in Uuids : RunStep(u)

Spec == Init /\ [][Next]_vars

\* ------------------------------------------------- out-of-band messages

\* WorkerStateManager._get_run: the run of the state store, or None.
get_run(uuid) == IF uuid \in runs THEN uuid ELSE 0

\* A variant that starts the read whatever the lookup gave.
read_reply_always(run) == "pending"

\* _read / _netcat, lines 339-345 and 348-354: read_run_missing answers the
\* requester, or a thread is started for the read.
read_reply(run) == IF run = 0 THEN "run missing" ELSE "pending"

\* _checkin, lines 206-208, and _read
CheckinRead ==
    /\ pc = "checkin"
    /\ \E uuid \in Uuids, s \in Sockets :
          /\ msg' = [NoMsg EXCEPT !.type = "read", !.uuid = uuid, !.socket = s]
          /\ sockets' = [sockets EXCEPT ![s] = read_reply(get_run(uuid))]
    /\ pc' = "post_checkin"
    /\ UNCHANGED <<poolVars, flagVars, cpuset, gpuset, storeVars, threads, depVars,
                   dispatched, workload, exitVars, cliVars>>

\* _checkin, lines 209-211, and _netcat
CheckinNetcat ==
    /\ pc = "checkin"
    /\ \E uuid \in Uuids, s \in Sockets :
          /\ msg' = [NoMsg EXCEPT !.type = "netcat", !.uuid = uuid, !.socket = s]
          /\ sockets' = [sockets EXCEPT ![s] = read_reply(get_run(uuid))]
    /\ pc' = "post_checkin"
    /\ UNCHANGED <<poolVars, flagVars, cpuset, gpuset, storeVars, threads, depVars,
                   dispatched, workload, exitVars, cliVars>>

\* Run.read / Run.netcat in the thread of lines 344-345, 353-354: the answer is
\* streamed to the socket, or the failure is reported to it.
ReadThread(s) ==
    /\ sockets[s] = "pending"
    /\ \E result \in {"streamed", "error"} : sockets' = [sockets EXCEPT ![s] = result]
    /\ UNCHANGED <<poolVars, flagVars, pc, localVars, storeVars, threads, depVars,
                   dispatched, workload, exitVars, cliVars>>

\* _checkin, lines 212-214, and _write, lines 357-359: without a run the
\* handler returns; with one it calls run.write itself, no thread is started.
CheckinWrite ==
    /\ pc = "checkin"
    /\ \E uuid \in Uuids :
          /\ msg' = [NoMsg EXCEPT !.type = "write", !.uuid = uuid]
          /\ pc' = IF get_run(uuid) = 0 THEN "post_checkin" ELSE "write"
    /\ UNCHANGED <<poolVars, flagVars, cpuset, gpuset, storeVars, threads, depVars,
                   serviceVars, exitVars, cliVars>>

\* _write, line 359: run.write(subpath, string) returns to the main thread; it
\* changes a file of the run's working directory.
RunWrite ==
    /\ pc = "write"
    /\ pc' = "post_checkin"
    /\ UNCHANGED <<poolVars, flagVars, localVars, storeVars, threads, depVars,
                   serviceVars, exitVars, cliVars>>

\* _checkin, lines 215-216, and _kill: Run.kill sets the kill flag of the run.
CheckinKill ==
    /\ pc = "checkin"
    /\ \E uuid \in Uuids :
          /\ msg' = [NoMsg EXCEPT !.type = "kill", !.uuid = uuid]
          /\ threads' = [v \in DOMAIN threads |->
                           IF v = get_run(uuid) THEN [threads[v] EXCEPT !.kill = TRUE]
                           ELSE threads[v]]
    /\ pc' = "post_checkin"
    /\ UNCHANGED <<poolVars, flagVars, cpuset, gpuset, storeVars, depVars,
                   serviceVars, exitVars, cliVars>>

\* Run: the driver finds the kill flag set at an iteration of its loop.
RunKilled(u) ==
    /\ Active(u)
    /\ threads[u].kill
    /\ ~Terminal(threads[u].st)
    /\ threads[u].st = "STAGING" => threads[u].dl \in {"new", "staged"}
    /\ threads' = [threads EXCEPT ![u].st = "FAILED", ![u].reason = "Kill requested"]
    /\ UNCHANGED <<poolVars, flagVars, pc, localVars, storeVars, depVars, serviceVars,
                   exitVars, cliVars>>

\* The dependency manager's cleanup thread: one pass of the eviction.
Evict ==
    /\ LET r == EvictPass(deps, files, fetches, lru)
       IN  /\ deps' = r.deps
           /\ files' = r.files
           /\ fetches' = r.fetches
           /\ lru' = r.lru
    /\ UNCHANGED <<poolVars, flagVars, pc, localVars, storeVars, threads, serviceVars,
                   exitVars, cliVars>>

\* A worker without previous runs, with the dependency keys ks, that is sent
\* the workload w.
FreshWorker(ks, w) ==
    /\ cpuset_free = CPUS
    /\ gpuset_free = GPUS
    /\ resource_lock = "none"
    /\ exiting = FALSE
    /\ should_upgrade = FALSE
    /\ last_checkin_successful = FALSE
    /\ resumed_prev_runs = FALSE
    /\ pc = "loop"
    /\ msg = NoMsg
    /\ cpuset = {}
    /\ gpuset = {}
    /\ runs = {}
    /\ previous_runs = [u \in {} |-> [cpuset |-> {}, gpuset |-> {},
                                     requested_memory_bytes |-> 0]]
    /\ state_file = {}
    /\ threads = [u \in {} |-> NewThread({}, {}, 0, NoKey)]
    /\ deps = [k \in ks |-> AbsentEntry]
    /\ fetches = [k \in ks |-> 0]
    /\ files = [k \in ks |-> "none"]
    /\ lru = <<>>
    /\ dispatched = 0
    /\ workload = w
    /\ checkout_attempted = FALSE
    /\ code_fetched = FALSE
    /\ worker_dir = "old"
    /\ exit_code = -1
    /\ sockets = [s \in Sockets |-> "open"]
    /\ exiting_lock = "none"
    /\ last_attempt = "none"
    /\ store_lock = "none"
    /\ resume_calls = 0
    /\ checkout_failed = FALSE
    /\ cleanup_threads = "running"

\* ------------------------------------------- the runs and their dependencies

MaxDepRuns == 2    \* run assignments with a dependency

\* A worker without previous runs that is sent runs of one CPU, each with a
\* dependency.
InitDeps ==
    /\ cpuset_free = CPUS
    /\ gpuset_free = GPUS
    /\ resource_lock = "none"
    /\ exiting = FALSE
    /\ should_upgrade = FALSE
    /\ last_checkin_successful = FALSE
    /\ resumed_prev_runs = FALSE
    /\ pc = "loop"
    /\ msg = NoMsg
    /\ cpuset = {}
    /\ gpuset = {}
    /\ runs = {}
    /\ previous_runs = [u \in {} |-> [cpuset |-> {}, gpuset |-> {}, requested_memory_bytes |-> 0]]
    /\ state_file = {}
    /\ threads = [u \in {} |-> NewThread({}, {}, 0, NoKey)]
    /\ deps = [k \in Keys |-> AbsentEntry]
    /\ fetches = [k \in Keys |-> 0]
    /\ files = [k \in Keys |-> "none"]
    /\ lru = <<>>
    /\ dispatched = 0
    /\ workload = [quota |-> MaxDepRuns, keys |-> Keys, sizes |-> {<<1, 0>>},
                   mems |-> {0}]
    /\ checkout_attempted = FALSE
    /\ code_fetched = FALSE
    /\ worker_dir = "old"
    /\ exit_code = -1
    /\ sockets = [s \in Sockets |-> "open"]
    /\ exiting_lock = "none"
    /\ last_attempt = "none"
    /\ store_lock = "none"
    /\ resume_calls = 0
    /\ checkout_failed = FALSE
    /\ cleanup_threads = "running"
    /\ CliIdle

NextDeps ==
    \/ DispatchStep
    \/ CheckinKill
    \/ \E u \in Uuids : RunStep(u)
    \/ \E u \in Uuids : DepStep(u)
    \/ \E u \in Uuids : RunKilled(u)

SpecDeps == InitDeps /\ [][NextDeps]_vars

\* ------------------------------------------------- the resource pool alone

MaxPoolRuns == 3   \* sets held at a time

\* A caller of _allocate_cpu_and_gpu_sets: any request.
PoolRequest ==
    /\ pc = "pool"
    /\ \E u \in 1 .. MaxPoolRuns, c \in 0 .. NumCpus, g \in 0 .. NumGpus :
          /\ u \notin DOMAIN threads
          /\ msg' = [NoMsg EXCEPT !.type = "run", !.uuid = u, !.cpus = c, !.gpus = g]
    /\ pc' = "alloc"
    /\ UNCHANGED <<poolVars, flagVars, cpuset, gpuset, storeVars, threads, depVars,
                   serviceVars, exitVars, cliVars>>

\* The caller keeps the sets it was given.
PoolTake ==
    /\ pc = "allocated"
    /\ threads' = [u \in DOMAIN threads \cup {msg.uuid} |->
                      IF u = msg.uuid
                      THEN [NewThread(cpuset, gpuset, 0, NoKey) EXCEPT !.st = "RUNNING"]
                      ELSE threads[u]]
    /\ msg' = NoMsg
    /\ cpuset' = {}
    /\ gpuset' = {}
    /\ pc' = "pool"
    /\ UNCHANGED <<poolVars, flagVars, storeVars, depVars, serviceVars,
                   exitVars, cliVars>>

\* A holder calls _deallocate_cpu_and_sets with the sets it was given.
PoolRelease(u) ==
    /\ u \in DOMAIN threads
    /\ resource_lock = "none"
    /\ cpuset_free' = Dealloc(cpuset_free, threads[u].cpuset)
    /\ gpuset_free' = Dealloc(gpuset_free, threads[u].gpuset)
    /\ threads' = [v \in DOMAIN threads \ {u} |-> threads[v]]
    /\ UNCHANGED <<resource_lock, flagVars, pc, localVars, storeVars, depVars,
                   serviceVars, exitVars, cliVars>>

InitPool ==
    /\ cpuset_free = CPUS
    /\ gpuset_free = GPUS
    /\ resource_lock = "none"
    /\ exiting = FALSE
    /\ should_upgrade = FALSE
    /\ last_checkin_successful = FALSE
    /\ resumed_prev_runs = FALSE
    /\ pc = "pool"
    /\ msg = NoMsg
    /\ cpuset = {}
    /\ gpuset = {}
    /\ runs = {}
    /\ previous_runs = [u \in {} |-> [cpuset |-> {}, gpuset |-> {}, requested_memory_bytes |-> 0]]
    /\ state_file = {}
    /\ threads = [u \in {} |-> NewThread({}, {}, 0, NoKey)]
    /\ deps = [k \in Keys |-> AbsentEntry]
    /\ fetches = [k \in Keys |-> 0]
    /\ files = [k \in Keys |-> "none"]
    /\ lru = <<>>
    /\ dispatched = 0
    /\ workload = [quota |-> 0, keys |-> {NoKey}, sizes |-> {}, mems |-> {}]
    /\ checkout_attempted = FALSE
    /\ code_fetched = FALSE
    /\ worker_dir = "old"
    /\ exit_code = -1
    /\ sockets = [s \in Sockets |-> "open"]
    /\ exiting_lock = "none"
    /\ last_attempt = "none"
    /\ store_lock = "none"
    /\ resume_calls = 0
    /\ checkout_failed = FALSE
    /\ cleanup_threads = "running"
    /\ CliIdle

NextPool ==
    \/ PoolRequest
    \/ AllocCpus
    \/ AllocGpus
    \/ PoolTake
    \/ \E u \in 1 .. MaxPoolRuns : PoolRelease(u)

SpecPool == InitPool /\ [][NextPool]_vars

\* ------------------------------------------ the dependency cache under a quota

InitCache ==
    /\ FreshWorker(CacheKeys, [quota |-> MaxDepRuns, keys |-> CacheKeys,
                               sizes |-> {<<1, 0>>}, mems |-> {0}])
    /\ CliIdle

NextCache ==
    \/ DispatchStep
    \/ \E u \in Uuids : RunStep(u)
    \/ \E u \in Uuids : DepStep(u)
    \/ Evict

SpecCache == InitCache /\ [][NextCache]_vars

\* ------------------------------------------ runs and out-of-band messages

InitOps ==
    /\ FreshWorker(Keys, [quota |-> MaxOpsRuns, keys |-> {NoKey},
                          sizes |-> {<<1, 0>>}, mems |-> {0}])
    /\ CliIdle

OpsStep ==
    \/ CheckinRead
    \/ CheckinNetcat
    \/ CheckinWrite
    \/ RunWrite
    \/ CheckinKill
    \/ \E s \in Sockets : ReadThread(s)

NextOps ==
    \/ DispatchStep
    \/ OpsStep
    \/ \E u \in Uuids : RunStep(u)
    \/ \E u \in Uuids : RunKilled(u)

SpecOps == InitOps /\ [][NextOps]_vars

\* ------------------------------------- the worker, fairly scheduled

MaxLiveRuns == 1   \* runs the bundle service dispatches

InitLive ==
    /\ FreshWorker(Keys, [quota |-> MaxLiveRuns, keys |-> {NoKey},
                          sizes |-> {<<1, 0>>}, mems |-> {0}])
    /\ CliIdle

\* The steps of the main thread (Worker.run and what it calls).
MainStep ==
    \/ DispatchStep
    \/ CheckinFails
    \/ CheckinUpgrade
    \/ RunRefused
    \/ RunRaises
    \/ checkout
    \/ FinalSave
    \/ UpgradeFetchFails
    \/ UpgradeExtract

\* _upgrade, lines 385-389 and 394: a pass of the loop that reaches break.
UpgradeSucceeds == UpgradeExtract /\ worker_dir' = "new"

\* The threads are scheduled: the main thread and the thread of every run go
\* on when they can; signal() releases the lock of the flag, so the loop test,
\* which waits for that lock, gets it at some time; and, the assumption under
\* which an upgrade ends, get_code and the extraction succeed at some time.
Fairness ==
    /\ WF_vars(MainStep)
    /\ SF_vars(LoopTest)
    /\ WF_vars(signal)
    /\ \A u \in Uuids : WF_vars(RunStep(u))
    /\ SF_vars(UpgradeSucceeds)

SpecLive == InitLive /\ [][Next]_vars /\ Fairness

\* ------------------------------------------- the command-line client

\* follow_targets, lines 821-823.  Times are in milliseconds; backoff = 1.1 is
\* the fraction backoff_num / backoff_den, and the product is rounded down.
initial_period == 1000
backoff_num == 11
backoff_den == 10
max_period == 60000

\* The states get_bundle_info can report.
BundleStates == {"STAGED", "RUNNING", "READY", "FAILED"}

\* follow_targets, line 828: State.READY, State.FAILED
TerminalStates == {"READY", "FAILED"}

\* follow_targets, line 850: min(backoff*period, max_period)
next_period(p) == Min((backoff_num * p) \div backoff_den, max_period)

\* follow_targets, lines 816-824: the command starts to follow a bundle.
follow_targets ==
    /\ cli_pc = "idle"
    /\ period' = initial_period
    /\ info_state' = "none"
    /\ change' = FALSE
    /\ cli_out' = "none"
    /\ cli_pc' = "sample"
    /\ UNCHANGED <<workerVars, user_info>>

\* follow_targets, lines 827-828: the state is sampled; a terminal state ends
\* the loop.
get_bundle_info ==
    /\ cli_pc = "sample"
    /\ \E st \in BundleStates :
          /\ info_state' = st
          /\ cli_pc' = IF st \in TerminalStates THEN "done" ELSE "update"
    /\ UNCHANGED <<workerVars, period, change, user_info, cli_out>>

\* follow_targets, lines 831-845: the new lines of the targets are printed;
\* change says whether there were any.
UpdateTargets ==
    /\ cli_pc = "update"
    /\ \E c \in BOOLEAN : change' = c
    /\ cli_pc' = "sleep"
    /\ UNCHANGED <<workerVars, period, info_state, user_info, cli_out>>

\* follow_targets, lines 848-850: without new output the loop sleeps for the
\* period and lengthens it; with new output it goes on at once and leaves the
\* period as it is.
SleepIfNoChange ==
    /\ cli_pc = "sleep"
    /\ period' = IF ~change THEN next_period(period) ELSE period
    /\ cli_pc' = "sample"
    /\ UNCHANGED <<workerVars, info_state, change, user_info, cli_out>>

\* follow_targets, lines 851-853: the handles are closed, the state returned.
FollowReturns ==
    /\ cli_pc = "done"
    /\ cli_out' = info_state
    /\ cli_pc' = "idle"
    /\ UNCHANGED <<workerVars, period, info_state, change, user_info>>

\* do_rm_user_command, lines 1178-1182: client.rm_user returns the user's
\* record or None.
do_rm_user_command ==
    /\ cli_pc = "idle"
    /\ \E r \in {"None", "record"} : user_info' = r
    /\ cli_out' = "none"
    /\ cli_pc' = "rm_user"
    /\ UNCHANGED <<workerVars, period, info_state, change>>

\* do_rm_user_command, lines 1183-1186: both branches subscript user_info;
\* on None the subscript raises TypeError before anything is printed.
RmUserReport ==
    /\ cli_pc = "rm_user"
    /\ cli_out' = IF user_info = "None" THEN "TypeError" ELSE "Removed"
    /\ cli_pc' = "idle"
    /\ UNCHANGED <<workerVars, period, info_state, change, user_info>>

InitCli ==
    /\ FreshWorker(Keys, [quota |-> 0, keys |-> {NoKey}, sizes |-> {}, mems |-> {}])
    /\ CliIdle

NextCli ==
    \/ follow_targets
    \/ get_bundle_info
    \/ UpdateTargets
    \/ SleepIfNoChange
    \/ FollowReturns
    \/ do_rm_user_command
    \/ RmUserReport

SpecCli == InitCli /\ [][NextCli]_vars

\* ================================================================ claims

\* A run that holds cores: a run of the previous process whose container is
\* still up and that was not resumed yet, or a run whose thread has not yet
\* given its sets back.
Live(u) ==
    IF u \in DOMAIN threads THEN threads[u].cleanup = 0
    ELSE u \in DOMAIN previous_runs

LiveCpus(u) == IF u \in DOMAIN threads THEN threads[u].cpuset ELSE previous_runs[u].cpuset
LiveGpus(u) == IF u \in DOMAIN threads THEN threads[u].gpuset ELSE previous_runs[u].gpuset

\* C1: in every reachable state, the CPU sets of two live runs are disjoint and
\* so are their GPU sets (the start-up phase included).
C1_NoOverlap ==
    \A u, v \in Uuids :
        (u # v /\ Live(u) /\ Live(v)) =>
            /\ LiveCpus(u) \cap LiveCpus(v) = {}
            /\ LiveGpus(u) \cap LiveGpus(v) = {}

HeldCpus == UNION {threads[u].cpuset : u \in DOMAIN threads}
HeldGpus == UNION {threads[u].gpuset : u \in DOMAIN threads}

\* C2: under any sequence of allocations and of releases of allocated sets, the
\* free set and the sets held (the one being handed out included) partition the
\* configured set, for CPUs and for GPUs.
C2_Conservation ==
    /\ cpuset_free \cup cpuset \cup HeldCpus = CPUS
    /\ gpuset_free \cup gpuset \cup HeldGpus = GPUS
    /\ cpuset_free \cap (cpuset \cup HeldCpus) = {}
    /\ gpuset_free \cap (gpuset \cup HeldGpus) = {}
    /\ cpuset \cap HeldCpus = {}
    /\ gpuset \cap HeldGpus = {}
    /\ \A u, v \in DOMAIN threads : u # v =>
          /\ threads[u].cpuset \cap threads[v].cpuset = {}
          /\ threads[u].gpuset \cap threads[v].gpuset = {}

C2_Witness ==
    /\ Cardinality(DOMAIN threads) >= 2
    /\ \E u \in DOMAIN threads : threads[u].cpuset # {} /\ threads[u].gpuset # {}
    /\ \E u \in DOMAIN threads : threads[u].cpuset # {} /\ threads[u].gpuset = {}
    /\ pc = "allocated"
    /\ msg.cpus > 0
    /\ cpuset = {}

Sufficient ==
    Cardinality(cpuset_free) >= msg.cpus /\ Cardinality(gpuset_free) >= msg.gpus

\* C3: a call of the allocation (entered at "alloc") takes the success path iff
\* both free sets are large enough at that moment; the CPUs and GPUs handed out
\* are exactly as many as requested, come from the free sets and leave them;
\* between the two removals the lock is held and no other step changes a free
\* set.
C3_AllocIff ==
    /\ [](pc = "alloc_gpus" => resource_lock = "main")
    /\ [][ /\ (pc = "alloc" /\ pc' # "alloc") =>
                IF Sufficient
                THEN /\ pc' = "alloc_gpus"
                     /\ Cardinality(cpuset') = msg.cpus
                     /\ cpuset' \subseteq cpuset_free
                     /\ cpuset_free' = cpuset_free \ cpuset'
                     /\ gpuset_free' = gpuset_free
                ELSE /\ pc' = "allocated"
                     /\ cpuset' = {}
                     /\ gpuset' = {}
           /\ (pc = "alloc_gpus" /\ pc' # "alloc_gpus") =>
                /\ pc' = "allocated"
                /\ resource_lock' = "none"
                /\ cpuset' = cpuset
                /\ Cardinality(gpuset') = msg.gpus
                /\ gpuset' \subseteq gpuset_free
                /\ gpuset_free' = gpuset_free \ gpuset'
                /\ cpuset_free' = cpuset_free
           /\ (pc = "alloc_gpus" /\ pc' = "alloc_gpus") =>
                UNCHANGED <<cpuset_free, gpuset_free>> ]_vars

C3_Witness ==
    /\ pc = "allocated"
    /\ msg.cpus = 2
    /\ msg.gpus = 1
    /\ Cardinality(cpuset) = 2
    /\ Cardinality(gpuset) = 1
    /\ DOMAIN threads # {}

\* C4: a call of the allocation that finds the CPUs or the GPUs insufficient
\* leaves both free sets as they were.
C4_FailureFrame ==
    [][ (pc = "alloc" /\ pc' # "alloc" /\ ~Sufficient) =>
            (cpuset_free' = cpuset_free /\ gpuset_free' = gpuset_free) ]_vars

C4_Witness ==
    /\ pc = "allocated"
    /\ cpuset = {}
    /\ gpuset = {}
    /\ msg.cpus >= 1
    /\ msg.cpus <= Cardinality(cpuset_free)
    /\ msg.gpus > Cardinality(gpuset_free)
    /\ HeldCpus # {}

\* C5: the dispatch of a run message that check-in returned after the drain was
\* requested allocates no core, starts no Run and adds no record.
C5_NoRunAfterDrain ==
    [][ (msg.type = "run" /\ msg.late) =>
            /\ cpuset' = {}
            /\ gpuset' = {}
            /\ DOMAIN threads' = DOMAIN threads
            /\ runs' \subseteq runs ]_vars

AfterLoop == pc \in {"checkout", "final_save", "upgrade", "exited"}

\* C6: the loop test leaves the loop exactly when the drain was requested and
\* the state store holds no run; after the loop both still hold.
C6_ShouldRun ==
    /\ [](AfterLoop => (exiting /\ runs = {}))
    /\ [][ (pc = "loop" /\ pc' # "loop") =>
              /\ pc' \in {"checkin", "checkout"}
              /\ (pc' = "checkout") <=> (exiting /\ runs = {}) ]_vars

C6_Witness ==
    /\ pc = "checkout"
    /\ \E u \in DOMAIN threads : threads[u].cleanup = 2
    /\ ~should_upgrade

\* C7: the worker exits only after checkout was attempted and the last state was
\* saved; get_code is called only for an upgrade, after both; the exit code is
\* 123 exactly for an upgrade, and then the new code is in the worker directory.
C7_DrainExit ==
    /\ (pc # "exited") <=> (exit_code = -1)
    /\ (pc \in {"upgrade", "exited"}) => (checkout_attempted /\ state_file = runs)
    /\ code_fetched => (should_upgrade /\ pc \in {"upgrade", "exited"})
    /\ worker_dir # "old" => code_fetched
    /\ (pc = "exited") =>
          /\ exit_code \in {0, 123}
          /\ (exit_code = 123) <=> should_upgrade
          /\ should_upgrade => (code_fetched /\ worker_dir = "new")

C7_Witness ==
    /\ pc = "exited"
    /\ exit_code = 123
    /\ \E u \in DOMAIN threads : threads[u].cleanup = 2 /\ u \in NewUuids

\* C8: the container of a run is started only after a state holding the run's
\* uuid was saved.
C8_PersistedBeforeStart ==
    \A u \in DOMAIN threads :
        (threads[u].st = "RUNNING" /\ threads[u].cleanup = 0) => u \in state_file

Downloaders(k) ==
    {u \in DOMAIN threads : /\ threads[u].cleanup = 0
                            /\ threads[u].st = "STAGING"
                            /\ threads[u].dl \in {"downloading", "storing"}
                            /\ threads[u].dep = k}

Outcome(rec) ==
    IF rec.st = "FAILED" THEN "failed"
    ELSE IF rec.dl = "staged" THEN "ready"
    ELSE "pending"

\* C9: while an entry is being downloaded exactly one run downloads it, and
\* nobody downloads an entry that is not being downloaded; get_bundle_contents
\* is called at most once while the entry exists; when the download ends the
\* downloader and every waiter have the same outcome, ready or failed.
C9_SingleFlight ==
    /\ [](\A k \in Keys :
            /\ fetches[k] <= 1
            /\ Cardinality(Downloaders(k)) =
                  (IF deps[k].state = "downloading" THEN 1 ELSE 0))
    /\ [][ \A k \in Keys :
             (deps[k].state = "downloading" /\ deps'[k].state # "downloading") =>
                \A u \in Downloaders(k) :
                    /\ Outcome(threads'[u]) =
                          (IF deps'[k].state = "ready" THEN "ready" ELSE "failed")
                    /\ \A v \in DOMAIN threads :
                          Waiting(v, k) => Outcome(threads'[v]) = Outcome(threads'[u])
         ]_vars

C9_Witness ==
    \E k \in Keys : \E u, v \in DOMAIN threads :
        /\ u # v
        /\ u \in Downloaders(k)
        /\ Waiting(v, k)

Holders(k) ==
    {u \in DOMAIN threads : /\ threads[u].cleanup < 2
                            /\ threads[u].dep = k
                            /\ threads[u].holds}

\* C10: the reference count of every entry is non-negative and is the number of
\* live runs that acquired the entry and did not release it.
C10_Refcount ==
    \A k \in Keys :
        /\ deps[k].refcount >= 0
        /\ deps[k].state # "absent" => deps[k].refcount = Cardinality(Holders(k))

C10_Witness ==
    \E k \in Keys : \E u, v \in DOMAIN threads :
        /\ deps[k].state = "ready"
        /\ deps[k].refcount = 1
        /\ threads[u].dep = k
        /\ threads[u].cleanup = 2
        /\ threads[v].dep = k
        /\ threads[v].holds

\* C11: the eviction deletes only ready entries without users, never touches
\* the path of an entry that is in use or being downloaded, and a pass leaves
\* the total size within the quota whenever deleting every ready entry without
\* users would achieve that.
C11_EvictionSafety ==
    /\ [](\A k \in CacheKeys : deps[k].state = "ready" => files[k] = "complete")
    /\ [][ (threads' = threads /\ deps' # deps) =>
             /\ \A k \in CacheKeys :
                   /\ deps'[k] # deps[k] =>
                         /\ deps[k].state = "ready"
                         /\ deps[k].refcount = 0
                         /\ deps'[k].state = "absent"
                   /\ (deps[k].refcount > 0 \/ deps[k].state = "downloading") =>
                         /\ deps'[k] = deps[k]
                         /\ files'[k] = files[k]
             /\ (TotalBytes(deps)
                   - SumBytes({k \in CacheKeys : deps[k].state = "ready"
                                                  /\ deps[k].refcount = 0})
                   <= DepQuota)
                  => TotalBytes(deps') <= DepQuota ]_vars

C11_Witness ==
    \E k, j \in CacheKeys : \E u \in DOMAIN threads :
        /\ k # j
        /\ deps[k].state = "absent"
        /\ files[k] = "none"
        /\ threads[u].dep = k
        /\ threads[u].st = "FINISHED"
        /\ deps[j].state = "ready"
        /\ deps[j].refcount > 0
        /\ TotalBytes(deps) <= DepQuota

Rank(st) ==
    CASE st = "PREPARING" -> 0
      [] st = "STAGING" -> 1
      [] st = "RUNNING" -> 2
      [] st = "UPLOADING" -> 3
      [] OTHER -> 4

\* C12: the state of a run moves forward along PREPARING, STAGING, RUNNING,
\* UPLOADING, FINISHED, or to FAILED from a state that is not terminal; a
\* terminal state never changes again.
C12_Monotonic ==
    [][ \A u \in DOMAIN threads : u \in DOMAIN threads' =>
           IF Terminal(threads[u].st)
           THEN threads'[u].st = threads[u].st
           ELSE \/ threads'[u].st = "FAILED"
                \/ Rank(threads'[u].st) >= Rank(threads[u].st) ]_vars

\* C13: the memory requested by the runs of the state store never exceeds the
\* installed memory.
C13_MemoryBound == get_allocated_memory_bytes <= InstalledMem

\* C14: when a download fails the path of the dependency is removed from disk,
\* the entry is removed, the downloading run fails and so does every run that
\* waited for the entry; no partial path exists without a download in flight.
C14_DownloadFailure ==
    /\ [](\A k \in Keys : files[k] = "partial" => deps[k].state = "downloading")
    /\ [][ \A k \in Keys : \A u \in Downloaders(k) :
             (threads'[u].st = "FAILED" \/ deps'[k].state = "absent") =>
                /\ files'[k] = "none"
                /\ deps'[k] = AbsentEntry
                /\ threads'[u].st = "FAILED"
                /\ threads'[u].reason # ""
                /\ \A v \in DOMAIN threads :
                      Waiting(v, k) => /\ threads'[v].st = "FAILED"
                                       /\ threads'[v].reason # "" ]_vars

C14_Witness ==
    \E k \in Keys : \E u, v \in DOMAIN threads :
        /\ u # v
        /\ threads[u].dep = k
        /\ threads[u].st = "FAILED"
        /\ threads[u].dl = "storing"
        /\ threads[u].chunks = 1
        /\ threads[u].reason = "error"
        /\ threads[v].dep = k
        /\ threads[v].st = "FAILED"
        /\ threads[v].dl = "waiting"
        /\ deps[k] = AbsentEntry
        /\ files[k] = "none"

\* C15: a run that is killed while it stores a dependency reads no further
\* chunk: its next step ends the download, removes the entry and the path and
\* fails the run with the kill reason; the run's sets are given back to the free
\* sets when it cleans up.
C15_KillDuringStaging ==
    [][ \A u \in DOMAIN threads :
          /\ ( /\ threads[u].st = "STAGING"
               /\ threads[u].dl = "storing"
               /\ threads[u].kill
               /\ threads'[u] # threads[u] ) =>
                  /\ threads'[u].st = "FAILED"
                  /\ threads'[u].reason = "Kill requested"
                  /\ threads'[u].chunks = threads[u].chunks
                  /\ deps'[threads[u].dep] = AbsentEntry
                  /\ files'[threads[u].dep] = "none"
          /\ ( /\ threads[u].reason = "Kill requested"
               /\ threads[u].cleanup = 0
               /\ threads'[u].cleanup = 1 ) =>
                  /\ threads[u].cpuset \subseteq cpuset_free'
                  /\ threads[u].gpuset \subseteq gpuset_free' ]_vars

C15_Witness ==
    \E u \in DOMAIN threads :
        /\ threads[u].st = "FAILED"
        /\ threads[u].dl = "storing"
        /\ threads[u].chunks = 1
        /\ threads[u].reason = "Kill requested"
        /\ threads[u].cleanup >= 1
        /\ threads[u].cpuset # {}
        /\ threads[u].cpuset \subseteq cpuset_free
        /\ deps[threads[u].dep] = AbsentEntry

C17_PoolRestored ==
    ( /\ DOMAIN threads # {}
      /\ \A u \in DOMAIN previous_runs : u \in DOMAIN threads
      /\ \A u \in DOMAIN threads : threads[u].cleanup = 2
      /\ cpuset = {}
      /\ gpuset = {} ) =>
        /\ cpuset_free = CPUS
        /\ gpuset_free = GPUS
        /\ runs = {}

\* The state store holds the live runs.
NoLiveRun(uuid) == uuid \notin runs

\* C18: a read or netcat message for a uuid without a live run answers 'run
\* missing' on the requester's socket, a write or kill message for such a uuid
\* does nothing; in all four cases the runs, their states and the free sets stay
\* as they were and the worker goes on.
C18_OutOfBand ==
    [][ ( /\ pc = "checkin"
          /\ msg'.type \in {"read", "netcat", "write", "kill"}
          /\ NoLiveRun(msg'.uuid) ) =>
            /\ UNCHANGED <<runs, threads, cpuset_free, gpuset_free, state_file>>
            /\ pc' = "post_checkin"
            /\ exit_code' = -1
            /\ IF msg'.type \in {"read", "netcat"}
               THEN sockets' = [sockets EXCEPT ![msg'.socket] = "run missing"]
               ELSE sockets' = sockets ]_vars

C18_Witness ==
    /\ pc = "post_checkin"
    /\ msg.type = "netcat"
    /\ msg.uuid \in DOMAIN threads
    /\ threads[msg.uuid].cleanup = 2
    /\ msg.uuid \notin runs
    /\ cpuset_free = CPUS
    /\ sockets[msg.socket] = "run missing"

\* C19: the state store holds every run whose container is executing, and only
\* runs that were accepted by this worker or its previous process.
C19_StoreCoversExecuting ==
    /\ \A u \in DOMAIN threads :
          (threads[u].st = "RUNNING" /\ threads[u].cleanup = 0) => u \in runs
    /\ runs \subseteq (1 .. dispatched) \cup DOMAIN previous_runs

\* C20: the exiting flag starts false and never goes back to false; it changes
\* only in signal() and in the dispatch of an upgrade message, by a step that
\* has the lock of the flag; signal() leaves it true; the loop test reads it
\* only when nobody else has the lock.
C20_ExitingMonotonic ==
    /\ ~exiting
    /\ [][ /\ exiting => exiting'
           /\ (exiting' # exiting) =>
                \/ exiting_lock = "signal" /\ exiting_lock' = "none"
                \/ exiting_lock = "none" /\ pc = "checkin" /\ should_upgrade'
           /\ (exiting_lock = "signal" /\ exiting_lock' = "none") => exiting'
           /\ (pc = "loop" /\ pc' # "loop") => exiting_lock = "none" ]_vars

C20_Witness ==
    /\ exiting
    /\ should_upgrade
    /\ exiting_lock = "signal"
    /\ pc = "loop"
    /\ runs # {}

\* ------------------------------------------------------------------ C21

\* The n smallest members of S.
Lowest(S, n) == {x \in S : Cardinality({y \in S : y < x}) < n}

\* C21: the set a successful allocation hands out is the n smallest members of
\* the free set at the time of the call, for the CPUs and for the GPUs.
C21_LowestIndexFirst ==
    [][ /\ (pc = "alloc" /\ pc' = "alloc_gpus") =>
              cpuset' = Lowest(cpuset_free, msg.cpus)
        /\ (pc = "alloc_gpus" /\ pc' = "allocated") =>
              gpuset' = Lowest(gpuset_free, msg.gpus) ]_vars

\* ------------------------------------------------------------------ C23

\* Worker.run, lines 138-139: this pass of the loop logs 'Connected!'.
LogsConnected == pc = "save" /\ ~last_checkin_successful

\* C23: a pass of the loop whose check-in succeeded logs 'Connected' if and
\* only if the check-in of the pass before it failed or there was none.
C23_ConnectedOnce ==
    [][ ((pc = "save" \/ pc = "subtracting") /\ pc' = "loop") =>
            (LogsConnected <=> last_attempt \in {"none", "failed"}) ]_vars

\* ------------------------------------------------------------------ C25

\* C25: the worker's code directory always holds the complete old code or the
\* complete new code.
C25_AtomicUpgrade == worker_dir \in {"old", "new"}

\* ------------------------------------------------------------------ C27

\* C27: the resume is entered only after a check-in that succeeded; when it
\* ends no core of a live resumed run is in a free set; a core outside the
\* configured sets does not make it end with an exception.
C27_ResumeSubtracts ==
    [][ /\ (pc # "resume" /\ pc' = "resume") => pc = "post_checkin"
        /\ (pc = "subtracting" /\ pc' # "subtracting") =>
              /\ \A u \in DOMAIN previous_runs :
                    Live(u) =>
                       /\ threads[u].cpuset \cap cpuset_free' = {}
                       /\ threads[u].gpuset \cap gpuset_free' = {}
              /\ pc' = "loop" =>
                    \E u \in runs :
                       \/ ~((threads[u].cpuset \cap CPUS) \subseteq cpuset_free)
                       \/ ~((threads[u].gpuset \cap GPUS) \subseteq gpuset_free) ]_vars

\* ------------------------------------------------------------------ C29

\* C29: the handler of a read, netcat or write message for a live run returns
\* to the loop at once, the operation being left to a context of its own; the
\* dispatch of a run message returns with the run still being prepared by its
\* own thread.
C29_NonBlocking ==
    [][ /\ ( /\ pc = "checkin"
             /\ msg'.type \in {"read", "netcat", "write"} ) =>
               pc' = "post_checkin"
        /\ ( /\ pc = "checkin"
             /\ msg'.type \in {"read", "netcat"}
             /\ ~NoLiveRun(msg'.uuid) ) =>
               sockets'[msg'.socket] = "pending"
        /\ (pc = "run_start" /\ pc' = "add_run") =>
               /\ msg.uuid \in DOMAIN threads'
               /\ threads'[msg.uuid].st = "PREPARING" ]_vars

\* ------------------------------------------------------------------ C30

\* The locks a thread holds.  The lock of the dependency manager is taken and
\* released inside each of its calls, which the worker makes with no other
\* lock held (lines 289-336, 372): no thread has it between two steps.
LocksHeld(t) ==
    (IF resource_lock = t THEN {"resource pool"} ELSE {}) \cup
    (IF store_lock = t THEN {"state store"} ELSE {})

\* C30: no thread holds two of the locks at a time, and the lock of the
\* resource pool is never taken by a thread that holds the lock of the state
\* store.
C30_LockDiscipline ==
    /\ [](\A t \in {"main"} : Cardinality(LocksHeld(t)) <= 1)
    /\ [][ (resource_lock = "none" /\ resource_lock' # "none") =>
               store_lock = "none" ]_vars

\* ------------------------------------------------------------------ C26

\* C26: when client.rm_user returns no user info the command reports that the
\* user is not a member of the group and ends without an error.
C26_RmUserAbsent ==
    [][ (cli_pc = "rm_user" /\ user_info = "None" /\ cli_pc' = "idle") =>
            cli_out' = "not a member" ]_vars

\* ------------------------------------------------------------------ C28

\* C28: the period starts at 1 s, is multiplied by 1.1 after a sample without
\* new output, never exceeds 60 s and is 1 s again after a sample with new
\* output; the loop ends exactly when the sampled state is READY or FAILED.
C28_FollowPeriod ==
    /\ [](cli_pc \in {"sample", "update", "sleep"} =>
             (initial_period <= period /\ period <= max_period))
    /\ [][ /\ (cli_pc = "idle" /\ cli_pc' = "sample") => period' = initial_period
           /\ (cli_pc = "sleep" /\ ~change) =>
                 period' = Min((backoff_num * period) \div backoff_den, max_period)
           /\ (cli_pc = "sleep" /\ change) => period' = initial_period
           /\ (cli_pc = "sample" /\ cli_pc' = "done") <=>
                 (cli_pc = "sample" /\ info_state' \in {"READY", "FAILED"}) ]_vars

\* ------------------------------------------------------------------ C22

\* C22: a check-in that raises is recorded and changes nothing else, the
\* process goes on; the loop is left only by a loop test that finds
\* should_run false; a run message a check-in returns is dispatched; and from
\* the head of the loop the worker always comes to its next check-in, or to the
\* check-out when it has been told to stop.
C22_CheckinRetried ==
    /\ [][ /\ (pc = "checkin" /\ pc' = "loop") =>
                /\ ~last_checkin_successful'
                /\ exit_code' = -1
                /\ UNCHANGED <<runs, threads, cpuset_free, gpuset_free, exiting,
                               should_upgrade, state_file>>
           /\ (pc # "checkout" /\ pc' = "checkout") => (pc = "loop" /\ ~should_run)
           /\ (pc = "checkin" /\ msg'.type = "run") => pc' = "alloc" ]_vars
    /\ (pc = "loop") ~> (pc = "checkin" \/ pc = "checkout")

C22_Witness ==
    /\ last_attempt = "failed"
    /\ ~last_checkin_successful
    /\ pc = "alloc"
    /\ msg.type = "run"
    /\ exit_code = -1

\* ------------------------------------------------------------------ C24

\* C24: _upgrade is left only by the exit with code 123 that follows an
\* extraction of the new code; and, get_code and the extraction succeeding at
\* some time, a worker that has entered _upgrade exits with code 123.
C24_UpgradeRetried ==
    /\ [][ (pc = "upgrade" /\ pc' # "upgrade") =>
              (pc' = "exited" /\ exit_code' = 123 /\ worker_dir' = "new") ]_vars
    /\ [](exit_code = 123 => (worker_dir = "new" /\ code_fetched))
    /\ (pc = "upgrade") ~> (exit_code = 123)

C24_Witness ==
    /\ pc = "upgrade"
    /\ code_fetched
    /\ worker_dir \in {"removed", "partial"}
    /\ exit_code = -1

\* ------------------------------------------------------------------ C31

\* The sets a step gives back with _deallocate_cpu_and_sets: those of the run
\* whose launch failed (line 275), or those of the run that has ended.
Released(u) ==
    /\ u \in DOMAIN threads
    /\ threads[u].cleanup = 0
    /\ threads'[u].cleanup = 1

\* C31: a release makes the members of the released sets free and changes the
\* membership of no other core; the release of an empty set leaves the free
\* set as it was.
C31_Release ==
    [][ /\ (pc = "run_start" /\ pc' = "post_checkin") =>
              /\ cpuset \subseteq cpuset_free'
              /\ gpuset \subseteq gpuset_free'
              /\ cpuset_free' \ cpuset = cpuset_free \ cpuset
              /\ gpuset_free' \ gpuset = gpuset_free \ gpuset
              /\ (cpuset = {}) => cpuset_free' = cpuset_free
              /\ (gpuset = {}) => gpuset_free' = gpuset_free
        /\ \A u \in Uuids : Released(u) =>
              /\ threads[u].cpuset \subseteq cpuset_free'
              /\ threads[u].gpuset \subseteq gpuset_free'
              /\ cpuset_free' \ threads[u].cpuset = cpuset_free \ threads[u].cpuset
              /\ gpuset_free' \ threads[u].gpuset = gpuset_free \ threads[u].gpuset
              /\ (threads[u].cpuset = {}) => cpuset_free' = cpuset_free
              /\ (threads[u].gpuset = {}) => gpuset_free' = gpuset_free ]_vars

\* A run that was given both CPUs and no GPU has ended and given them back
\* while a GPU was held by nobody.
C31_Witness ==
    \E u \in NewUuids :
        /\ u \in DOMAIN threads
        /\ threads[u].cleanup >= 1
        /\ threads[u].cpuset = CPUS
        /\ threads[u].gpuset = {}
        /\ cpuset_free = CPUS
        /\ gpuset_free = GPUS

\* ------------------------------------------------------------------ C32

\* C32: a run message whose request the free sets could serve (the request of
\* no CPU and no GPU included) is not dropped: _run goes on to create and start
\* the Run.
C32_DroppedOnlyIfInsufficient ==
    [][ (pc = "allocated" /\ pc' # "allocated"
         /\ Cardinality(cpuset) = msg.cpus /\ Cardinality(gpuset) = msg.gpus) =>
            pc' = "run_start" ]_vars

\* ------------------------------------------------------------------ C33

\* C33: when the handling of a run message ends without a record of the run in
\* the state store, the cores that were allocated for it are free again.
C33_NoLeak ==
    [][ (pc \in {"allocated", "run_start", "add_run"}
         /\ pc' \in {"post_checkin", "loop"}
         /\ msg.uuid \notin runs') =>
            (cpuset \subseteq cpuset_free' /\ gpuset \subseteq gpuset_free') ]_vars

\* ------------------------------------------------------------------ C34

\* C34: resume_previous_runs is called at most once in the life of the worker
\* process.
C34_ResumeOnce == resume_calls <= 1

\* The run u is, in this step, a caller of add_dependency that was told to
\* download and whose call ends.
EndsDownload(u) ==
    /\ u \in DOMAIN threads
    /\ u \in Downloaders(threads[u].dep)
    /\ \/ threads'[u].st # "STAGING"
       \/ threads'[u].dl \notin {"downloading", "storing"}

\* C35: a call of add_dependency that was told to download ends, in every
\* outcome, with finish_download applied to its key, and only then: the entry
\* leaves the downloading state in exactly the steps in which its downloader's
\* call ends, and it becomes ready exactly when the whole payload was stored;
\* a caller that was not told to download starts no get_bundle_contents and
\* leaves the state of the entry as it is.
C35_FinishOnce ==
    [][ /\ \A u \in DOMAIN threads : EndsDownload(u) =>
              LET k == threads[u].dep
              IN  /\ deps[k].state = "downloading"
                  /\ deps'[k] = DM_finish_download(deps, k, files'[k] = "complete")[k]
                  /\ (deps'[k].state = "ready") =
                        (threads[u].dl = "storing" /\ threads[u].chunks + 1 = DepChunks
                            /\ threads'[u].st = "STAGING")
        /\ \A k \in Keys :
              (deps[k].state = "downloading" /\ deps'[k].state # "downloading") =>
                 Cardinality({u \in DOMAIN threads : EndsDownload(u) /\ threads[u].dep = k}) = 1
        /\ \A u \in DOMAIN threads :
              ( /\ u \in DOMAIN threads
                /\ threads[u].dl = "new"
                /\ threads'[u].dl \in {"waiting", "staged"} ) =>
                  /\ fetches' = fetches
                  /\ deps'[threads'[u].dep].state = deps[threads'[u].dep].state
      ]_vars

C35_Witness ==
    \E u, w \in DOMAIN threads : \E k \in Keys :
        /\ u # w
        /\ threads[u].dep = k /\ threads[w].dep = k
        /\ threads[u].dl = "staged" /\ threads[u].chunks + 1 = DepChunks
        /\ threads[w].dl = "staged" /\ threads[w].chunks = 0
        /\ deps[k].state = "ready"
        /\ deps[k].refcount = 2
        /\ files[k] = "complete"
        /\ fetches[k] = 1

\* C36: after a checkout that raised a bundle-service error the shutdown goes
\* on: the main thread is at the final save or beyond it, the step that follows
\* persists the state store and stops the cleanup threads, it goes to the
\* upgrade exactly when one was requested, and the worker only ends with the
\* cleanup threads stopped and, if an upgrade was requested, through the
\* upgrade's exit.
C36_CheckoutFailure ==
    /\ [](checkout_failed =>
            /\ pc \in {"final_save", "upgrade", "exited"}
            /\ (pc # "final_save") => cleanup_threads = "stopped"
            /\ (pc = "upgrade") => should_upgrade
            /\ (pc = "exited") =>
                  /\ should_upgrade = (exit_code = 123)
                  /\ should_upgrade => worker_dir = "new")
    /\ [][ (checkout_failed /\ pc = "final_save" /\ pc' # "final_save") =>
              /\ state_file' = runs
              /\ cleanup_threads' = "stopped"
              /\ pc' = (IF should_upgrade THEN "upgrade" ELSE "exited") ]_vars

C36_Witness ==
    /\ checkout_failed
    /\ pc = "exited"
    /\ should_upgrade
    /\ exit_code = 123
    /\ cleanup_threads = "stopped"
    /\ state_file = runs

\* C37: whenever the main thread is about to check in, the request's cpus and
\* gpus are the sizes of the configured sets, whatever was allocated, released
\* or subtracted by the resume, and its memory_bytes is the installed memory
\* less the requested memory of the runs in the state store, or zero when that
\* difference is negative.
C37_CheckinFigures ==
    (pc = "checkin") =>
        LET allocated == SumMemory(threads, runs)
        IN  /\ checkin_request.cpus = NumCpus
            /\ checkin_request.gpus = NumGpus
            /\ checkin_request.memory_bytes >= 0
            /\ IF allocated <= InstalledMem
               THEN checkin_request.memory_bytes + allocated = InstalledMem
               ELSE checkin_request.memory_bytes = 0

C37_Witness ==
    /\ pc = "checkin"
    /\ resumed_prev_runs
    /\ runs # {}
    /\ cpuset_free # CPUS
    /\ SumMemory(threads, runs) > InstalledMem
    /\ checkin_request = [cpus |-> NumCpus, gpus |-> NumGpus, memory_bytes |-> 0,
                          will_upgrade |-> FALSE]

\* C38: once the worker is draining, and with the run threads and the main
\* loop scheduled, the state store comes to hold no run and checkout is called.
C38_DrainLiveness == exiting ~> (runs = {} /\ checkout_attempted)

====
